---- MODULE Spec2Model ----
(***************************************************************************)
(* A model of pysster's Data class (src/pysster/Data.py): construction     *)
(* (loading, the sequence-length check, label vectors, the first split),   *)
(* train_val_test_split, load_additional_data and the batch generator.     *)
(*                                                                         *)
(* numpy arrays are objects: an array has an identity (an id of the heap   *)
(* variable arrays) and contents, so that two names for one array see      *)
(* each other's in-place changes.  Portions are exact percentages.         *)
(***************************************************************************)
EXTENDS Integers, Sequences, FiniteSets, TLC

\* ------------------------------------------------------------------ bounds
\* most records a set of class files holds
MaxRecords == 3
\* most class files handed to the constructor
MaxFiles == 2
\* most blocks of additional data that are loaded
MaxBlocks == 2
\* most batch generators that are created
MaxGens == 2
\* a set of more categories than this is enumerated in two orders only
MaxEnumerated == 3

\* ------------------------------------------------------ program constants
\* line 198: "A maximum of 256 are supported."
MaxCategories == 256

\* ------------------------------------------------------------- input sets
\* Python's None, where an int is expected (seed = None, line 113)
None == -1
\* sequence lengths of fasta entries
SeqLens == {1, 2}
\* alphabets: "ACGT" (4 symbols), or the pair ("ACGU", "().") (4 x 3 symbols)
Alphabets == {<<4>>, <<4, 3>>}
\* multi-label headers ('>1', '>0,1', ...) as lists of class indices
Headers == {<<0>>, <<1>>, <<0, 1>>}
\* portions in percent; 70 and 15 are the constructor's own (line 110)
Portions == {0, 40, 70}
\* the portions of the splits that are compared for reproducibility
PinPortions == {40}
Seeds == {None, 0, 1}
Groups == {"train", "val", "test"}

\* -------------------------------------------------------------- sequences
Min(a, b) == IF a < b THEN a ELSE b
Max(a, b) == IF a > b THEN a ELSE b

Range(s) == {s[i] : i \in DOMAIN s}

RECURSIVE Flatten(_)
Flatten(ss) == IF ss = <<>> THEN <<>> ELSE Head(ss) \o Flatten(Tail(ss))

RECURSIVE SeqsUpTo(_, _)
\* all sequences over S of length <= n
SeqsUpTo(S, n) ==
    IF n = 0 THEN {<<>>}
    ELSE LET shorter == SeqsUpTo(S, n - 1)
         IN  shorter \cup {Append(s, x) : s \in {t \in shorter : Len(t) = n - 1}, x \in S}

\* the permutations of 0..n-1, as 1-indexed sequences
PermutationsOf(n) ==
    {p \in [1..n -> 0..(n - 1)] : \A i, j \in 1..n : p[i] = p[j] => i = j}
PermutationTable == [n \in 0..(MaxRecords + 1) |-> PermutationsOf(n)]
Permutations0(n) == PermutationTable[n]

\* Python's a[lo:hi] on a 1-indexed sequence holding a[0], a[1], ...
PySlice(a, lo, hi) ==
    LET n == Len(a)
        l == IF lo < 0 THEN Max(n + lo, 0) ELSE Min(lo, n)
        h == IF hi < 0 THEN Max(n + hi, 0) ELSE Min(hi, n)
    IN  IF h <= l THEN <<>> ELSE SubSeq(a, l + 1, h)

\* Python's int(x) for the rational x = num / den, den > 0: towards zero
PyInt(num, den) == IF num >= 0 THEN num \div den ELSE -((-num) \div den)

\* --------------------------------------------------------------- the state
VARIABLES
    phase,        \* "new": before __init__; "ready"; "failed": __init__ raised
    class_files,  \* the constructor's argument: files of [seq_len, header] entries
    multilabel,   \* self.multilabel
    data,         \* self.data: per record the shape of its encoded tensor
    labels,       \* self.labels: per record a list of class ids, later a vector
    splits,       \* self.splits: group -> id of the array it names
    meta,         \* self.meta: the blocks of additional data, in key order
    gens,         \* the generators _data_generator has returned
    arrays,       \* the live numpy index arrays: id -> contents
    rng,          \* numpy's global random state
    drawn,        \* what the generator returns right after np.random.seed(s)
    last,         \* the last call and how it ended
    pinned        \* a seeded split call, kept to compare later ones with

vars == <<phase, class_files, multilabel, data, labels, splits, meta, gens,
          arrays, rng, drawn, last, pinned>>

NoSplits == [g \in Groups |-> 0]
NoArrays == [i \in {} |-> <<>>]
NoDraws == [k \in {} |-> <<>>]
NoPin == [pt |-> 0, pv |-> 0, seed |-> None, parts |-> <<>>]
\* select = None
NoSelect == <<None>>
\* a generator slot: st is "none" (not created), "created" (no next() yet),
\* "running" (suspended at a yield) or "raised" (ended by an exception);
\* idx is the id of the array its variable idx names, i its loop variable;
\* order holds idx as it was when the current pass began and emitted the
\* indices yielded in this pass so far
NoGen == [st |-> "none", group |-> "all", batch_size |-> 1, shuffle |-> FALSE,
          with_labels |-> TRUE, select |-> NoSelect, seed |-> None,
          with_meta |-> TRUE, idx |-> 0, i |-> 0, order |-> <<>>,
          emitted |-> <<>>, cause |-> ""]
GenIds == 1..MaxGens

\* the stored index sequence of a group
SplitSeq(g) == arrays[splits[g]]

\* --------------------------------------------------------------- the rng
\* The state of numpy's Mersenne Twister is "entropy" (seeded from the OS,
\* or advanced by draws: what it returns is not known) or <<s>>: exactly
\* the state np.random.seed(s) leaves.  drawn[<<s, n>>] is the permutation
\* of n positions the generator returns in state <<s>>; it is fixed the
\* first time it is drawn.
Entropy == "entropy"

\* the permutations a draw of n positions may return in state r
Draws(r, n) ==
    IF r = Entropy THEN Permutations0(n)
    ELSE IF <<r[1], n>> \in DOMAIN drawn THEN {drawn[<<r[1], n>>]}
    ELSE Permutations0(n)

\* drawn after the draw of p in state r
Remember(r, n, p) ==
    IF r = Entropy \/ <<r[1], n>> \in DOMAIN drawn THEN drawn
    ELSE [k \in DOMAIN drawn \cup {<<r[1], n>>} |->
            IF k = <<r[1], n>> THEN p ELSE drawn[k]]

\* -------------------------------------------------------------- the loader
\* One_Hot_Encoder(alphabet): the joint alphabet of a pair has |a0| x |a1| symbols
AlphabetSize(alphabet) ==
    IF Len(alphabet) = 2 THEN alphabet[1] * alphabet[2] ELSE alphabet[1]

\* _load_encode_dna / _load_encode_rna: self.data, one shape per entry
LoadData(files, alphabet) ==
    Flatten([f \in DOMAIN files |->
        [e \in DOMAIN files[f] |-> <<files[f][e].seq_len, AlphabetSize(alphabet)>>]])

\* _load_encode_dna / _load_encode_rna: self.labels, one raw label list per
\* entry: the header's list (multi-label) or the file's position
LoadLabels(files, multi) ==
    Flatten([f \in DOMAIN files |->
        [e \in DOMAIN files[f] |->
            [kind |-> "list",
             v |-> IF multi THEN files[f][e].header ELSE <<f - 1>>]]])

\* the check with a loop that stops one record early
LengthsDiffer_short(d) == \E x \in 2..(Len(d) - 1) : d[1][1] # d[x][1]

\* lines 105-108: does some record differ in length from the first?
LengthsDiffer(d) == \E x \in 2..Len(d) : d[1][1] # d[x][1]

SetMax(S) == CHOOSE m \in S : \A x \in S : x <= m

\* the vectors with as many entries as there are distinct class ids
process_labels_count(raw) ==
    LET n_classes == Cardinality(UNION {Range(raw[x].v) : x \in DOMAIN raw})
    IN  [x \in DOMAIN raw |->
            [kind |-> "array",
             v |-> [c \in 1..n_classes |->
                      IF (c - 1) \in Range(raw[x].v) THEN 1 ELSE 0]]]

\* _process_labels: the vectors built from the raw label lists
process_labels(raw) ==
    LET n_classes == SetMax({SetMax(Range(raw[x].v)) : x \in DOMAIN raw}) + 1
    IN  [x \in DOMAIN raw |->
            [kind |-> "array",
             v |-> [c \in 1..n_classes |->
                      IF (c - 1) \in Range(raw[x].v) THEN 1 ELSE 0]]]

\* ------------------------------------------------------------- the split
break_train(n, pt) == PyInt(n * pt, 100)
break_val(n, pt, pv) == PyInt(n * (pt + pv), 100)

\* a split whose middle slice runs one index too far
NpSplit_inclusive(perm, bt, bv) ==
    [train |-> PySlice(perm, 0, bt),
     val   |-> PySlice(perm, bt, bv + 1),
     test  |-> PySlice(perm, bv, Len(perm))]

\* np.split(perm, [bt, bv]): the three sub-arrays
NpSplit(perm, bt, bv) ==
    [train |-> PySlice(perm, 0, bt),
     val   |-> PySlice(perm, bt, bv),
     test  |-> PySlice(perm, bv, Len(perm))]

\* line 131: "if seed:" reseeds for a seed that is neither None nor 0
SeedTaken(seed) == seed # None /\ seed # 0

\* the random state the permutation is drawn in
SplitRng(seed) == IF SeedTaken(seed) THEN <<seed>> ELSE rng

\* ids of the arrays a new split creates: ids no live array has
PinnedIds == {gens[g].idx : g \in GenIds} \ {0}
RECURSIVE NextFree(_, _)
NextFree(i, used) == IF i \in used THEN NextFree(i + 1, used) ELSE i
FreshIds(used) ==
    LET a == NextFree(1, used)
        b == NextFree(a + 1, used)
        c == NextFree(b + 1, used)
    IN  <<a, b, c>>

\* lines 131-138 on a dataset of n records
SplitEffect(n, pt, pv, seed, op, pin) ==
    \E p \in Draws(SplitRng(seed), n) :
        LET parts == NpSplit(p, break_train(n, pt), break_val(n, pt, pv))
            ids == FreshIds(PinnedIds)
        IN  /\ splits' = [train |-> ids[1], val |-> ids[2], test |-> ids[3]]
            /\ arrays' = [i \in PinnedIds \cup Range(ids) |->
                            IF i = ids[1] THEN parts.train
                            ELSE IF i = ids[2] THEN parts.val
                            ELSE IF i = ids[3] THEN parts.test
                            ELSE arrays[i]]
            /\ drawn' = Remember(SplitRng(seed), n, p)
            /\ rng' = Entropy
            /\ last' = [op |-> op, pt |-> pt, pv |-> pv, seed |-> seed,
                        raised |-> FALSE]
            /\ pinned' = IF pin /\ pinned = NoPin /\ seed # None
                         THEN [pt |-> pt, pv |-> pv, seed |-> seed, parts |-> parts]
                         ELSE pinned

\* Data.__init__(class_files, alphabet)
Data_init(files, multi, alphabet) ==
    /\ phase = "new"
    /\ class_files' = files
    /\ multilabel' = multi
    /\ data' = LoadData(files, alphabet)
    /\ IF data' = <<>> \/ LengthsDiffer(data')
       THEN \* data[0] of no records is an IndexError; line 108 raises
            /\ phase' = "failed"
            /\ labels' = LoadLabels(files, multi)
            /\ last' = [op |-> "init", pt |-> 0, pv |-> 0, seed |-> None,
                        raised |-> TRUE]
            /\ UNCHANGED <<splits, arrays, rng, drawn, pinned, gens>>
            /\ meta' = <<>>
       ELSE /\ phase' = "ready"
            /\ labels' = process_labels(LoadLabels(files, multi))
            /\ SplitEffect(Len(data'), 70, 15, None, "init", FALSE)
            /\ meta' = <<>>
            /\ UNCHANGED gens

\* a split that also drops the blocks of additional data
train_val_test_split_clears(pt, pv, seed, pin) ==
    /\ phase = "ready"
    /\ SplitEffect(Len(data), pt, pv, seed, "split", pin)
    /\ meta' = <<>>
    /\ UNCHANGED <<phase, class_files, multilabel, data, labels, gens>>

\* Data.train_val_test_split(portion_train, portion_val, seed)
train_val_test_split(pt, pv, seed, pin) ==
    /\ phase = "ready"
    /\ SplitEffect(Len(data), pt, pv, seed, "split", pin)
    /\ UNCHANGED <<phase, class_files, multilabel, data, labels, meta, gens>>

\* ---------------------------------------------------- additional data
\* A line of a text file is [num, val, ws]: num says the text is the number
\* val (float() parses it) and not the word number val (float() raises);
\* ws says the text has blanks around it.  The trailing newline is there
\* in both cases.

\* line.strip(): the text without the blanks around it
Strip(line) == [kind |-> "str", v |-> <<IF line.num THEN 1 ELSE 0, line.val>>]

\* float(line), for a line it parses
Float(line) == [kind |-> "float", v |-> <<line.val>>]

\* lines 182-190: the values read before the first line float() rejects
ReadValues(lines, is_categorical) ==
    IF is_categorical THEN [i \in DOMAIN lines |-> Strip(lines[i])]
    ELSE LET bad == {i \in DOMAIN lines : ~lines[i].num}
             stop == IF bad = {} THEN Len(lines) + 1
                     ELSE CHOOSE i \in bad : \A j \in bad : i <= j
         IN  [i \in 1..(stop - 1) |-> Float(lines[i])]

\* line 189 raises ValueError on some line
ParseFails(lines, is_categorical) ==
    ~is_categorical /\ \E i \in DOMAIN lines : ~lines[i].num

\* line 191: the count of values is not the count of records
CountMismatch(values) == Len(labels) # Len(values)

\* line 198 with a limit one too high
TooManyCategories_late(categories) == Cardinality(categories) > MaxCategories + 1

\* line 198
TooManyCategories(categories) == Cardinality(categories) > MaxCategories

\* is value c before value d in the order of their texts?
Before(c, d) == c.v[1] < d.v[1] \/ (c.v[1] = d.v[1] /\ c.v[2] < d.v[2])
Rank(c, categories) == Cardinality({d \in categories : Before(d, c)})

\* line 202: enumerate(categories) numbers the set in its iteration order,
\* which Python does not fix
Mappings(categories) ==
    LET k == Cardinality(categories)
    IN  IF k <= MaxEnumerated
        THEN {m \in [categories -> 0..(k - 1)] :
                 \A c, d \in categories : m[c] = m[d] => c = d}
        ELSE {[c \in categories |-> Rank(c, categories)],
              [c \in categories |-> k - 1 - Rank(c, categories)]}

\* lines 203-206: every value replaced by its one-hot vector
OneHotEncode(values, mapping, k) ==
    [i \in DOMAIN values |->
        LET hot == mapping[values[i]]
        IN  [kind |-> "onehot", v |-> [c \in 1..k |-> IF c - 1 = hot THEN 1 ELSE 0]]]

\* the sum of s[lo..hi], by halves
RECURSIVE SumRange(_, _, _)
SumRange(s, lo, hi) ==
    IF lo > hi THEN 0
    ELSE IF lo = hi THEN s[lo]
    ELSE SumRange(s, lo, (lo + hi) \div 2) + SumRange(s, (lo + hi) \div 2 + 1, hi)
SeqSum(s) == SumRange(s, 1, Len(s))

\* line 210, stats.zscore: (x - mean) / std, kept exact: with d = n*x - sum
\* and q the sum of all d squared, the score is d * sqrt(n) / sqrt(q)
\* (nan when q = 0)
ZScore(values) ==
    LET n == Len(values)
        total == SeqSum([i \in DOMAIN values |-> values[i].v[1]])
        d(i) == n * values[i].v[1] - total
        q == SeqSum([i \in DOMAIN values |-> d(i) * d(i)])
    IN  [i \in DOMAIN values |-> [kind |-> "z", v |-> <<d(i), n, q>>]]

\* Data.load_additional_data(class_files, is_categorical, standardize)
load_additional_data(files, is_categorical, standardize) ==
    LET lines == Flatten(files)
        values == ReadValues(lines, is_categorical)
        categories == Range(values)
        raw == [data |-> values, is_categorical |-> is_categorical]
        call(raised) == [op |-> "load", files |-> files,
                         is_categorical |-> is_categorical,
                         standardize |-> standardize, raised |-> raised]
    IN  /\ phase = "ready"
        /\ Len(meta) < MaxBlocks
        /\ IF \/ ParseFails(lines, is_categorical)
              \/ CountMismatch(values)
              \/ (is_categorical /\ TooManyCategories(categories))
           THEN \* raised after line 181 has entered the block into self.meta
                /\ meta' = Append(meta, raw)
                /\ last' = call(TRUE)
           ELSE /\ last' = call(FALSE)
                /\ IF is_categorical
                   THEN \E mapping \in Mappings(categories) :
                            meta' = Append(meta,
                                [raw EXCEPT !.data = OneHotEncode(values, mapping,
                                                        Cardinality(categories))])
                   ELSE meta' = Append(meta,
                            [raw EXCEPT !.data = IF standardize THEN ZScore(values)
                                                 ELSE values])
        /\ UNCHANGED <<phase, class_files, multilabel, data, labels, splits,
                       gens, arrays, rng, drawn, pinned>>

\* ------------------------------------------------------ the generator
\* _get_idx(group): "all" builds a new array, a stored group is returned
\* itself, not copied
get_idx_is_new(group) == group = "all"
get_idx(group) ==
    IF group = "all" THEN [j \in 1..Len(data) |-> j - 1] ELSE SplitSeq(group)

\* Data.get_labels(group): the label rows of the group's indices
get_labels(group) ==
    [j \in DOMAIN get_idx(group) |-> labels[get_idx(group)[j] + 1]]

\* line 320, idx[select] with a list of positions: out of range?
SelectFails(base, select) ==
    select # NoSelect /\ \E j \in DOMAIN select : select[j] >= Len(base)

\* line 320, idx[select] with a list of positions: a new array
Select(base, select) == [j \in DOMAIN select |-> base[select[j] + 1]]

\* _get_additional_data: does some block lack a value for a record of window?
AdditionalDataFails(window) ==
    \E b \in DOMAIN meta, j \in DOMAIN window : window[j] + 1 > Len(meta[b].data)

\* np.append(additional, value): a vector adds its entries, a scalar itself
Cells(value) ==
    IF value.kind = "onehot"
    THEN [c \in DOMAIN value.v |-> [kind |-> "float", v |-> <<value.v[c]>>]]
    ELSE <<value>>

\* the values of the blocks put together last block first
get_additional_data_reversed(window) ==
    [j \in DOMAIN window |->
        Flatten([b \in DOMAIN meta |->
            Cells(meta[Len(meta) + 1 - b].data[window[j] + 1])])]

\* _get_additional_data: per record of the window, its values of all blocks
\* in key order
get_additional_data(window) ==
    [j \in DOMAIN window |->
        Flatten([b \in DOMAIN meta |-> Cells(meta[b].data[window[j] + 1])])]

\* what one yield hands out for a window of indices
Batch(gen, window) ==
    [indices |-> window,
     data |-> [j \in DOMAIN window |-> data[window[j] + 1]],
     has_meta |-> gen.with_meta /\ Len(meta) > 0,
     meta |-> IF gen.with_meta /\ Len(meta) > 0
              THEN get_additional_data(window) ELSE <<>>,
     has_labels |-> gen.with_labels,
     labels |-> IF gen.with_labels
                THEN [j \in DOMAIN window |-> labels[window[j] + 1]] ELSE <<>>]

\* the random state of a pass: line 323 reseeds, from the OS for seed None
PassRng(seed) == IF seed = None THEN Entropy ELSE <<seed>>

\* np.random.shuffle(idx) with the drawn positions p
Shuffled(contents, p) == [j \in DOMAIN contents |-> contents[p[j] + 1]]

\* a call of _data_generator: Python binds the arguments and runs nothing
data_generator(g, group, batch_size, shuffle, with_labels, select, seed, with_meta) ==
    /\ phase = "ready"
    /\ gens[g].st = "none"
    /\ gens' = [gens EXCEPT ![g] =
                   [NoGen EXCEPT !.st = "created", !.group = group,
                                 !.batch_size = batch_size, !.shuffle = shuffle,
                                 !.with_labels = with_labels, !.select = select,
                                 !.seed = seed, !.with_meta = with_meta]]
    /\ last' = [op |-> "generator", gen |-> g, raised |-> FALSE]
    /\ UNCHANGED <<phase, class_files, multilabel, data, labels, splits, meta,
                   arrays, rng, drawn, pinned>>

\* the arrays that stay alive: those of self.splits and of the generators
Collect(heap, gs) ==
    [i \in (DOMAIN heap) \cap (Range(splits) \cup {gs[g].idx : g \in GenIds}) |->
        heap[i]]

\* next() on generator g: the body runs from where it stands to the next
\* yield (lines 318-346)
next(g) ==
    LET gen == gens[g]
        start == gen.st = "created"
        base == get_idx(gen.group)
        new == get_idx_is_new(gen.group) \/ gen.select # NoSelect
        id == IF ~start THEN gen.idx
              ELSE IF new THEN NextFree(1, Range(splits) \cup PinnedIds)
              ELSE splits[gen.group]
        before == IF ~start THEN arrays[gen.idx]
                  ELSE IF gen.select # NoSelect THEN Select(base, gen.select)
                  ELSE base
        L == Len(before)
        pass == start \/ gen.i + gen.batch_size >= L
        i == IF pass THEN 0 ELSE gen.i + gen.batch_size
        ended(gs, heap, cause) ==
            /\ gens' = [gs EXCEPT ![g].st = "raised", ![g].idx = 0,
                                  ![g].cause = cause]
            /\ arrays' = Collect(heap, gens')
            /\ last' = [op |-> "next", gen |-> g, raised |-> TRUE]
    IN  /\ phase = "ready"
        /\ gen.st \in {"created", "running"}
        /\ IF start /\ SelectFails(base, gen.select)
           THEN \* IndexError at line 320
                /\ ended(gens, arrays, "select")
                /\ UNCHANGED <<phase, rng, drawn>>
           ELSE IF L = 0
           THEN \* "while 1" around a loop that yields nothing: next() never returns
                /\ phase' = "hung"
                /\ last' = [op |-> "next", gen |-> g, raised |-> FALSE]
                /\ UNCHANGED <<gens, arrays, rng, drawn>>
           ELSE \E p \in (IF pass /\ gen.shuffle THEN Draws(PassRng(gen.seed), L)
                           ELSE {<<>>}) :
                  LET after == IF pass /\ gen.shuffle THEN Shuffled(before, p)
                               ELSE before
                      window == PySlice(after, i, i + gen.batch_size)
                      heap == [j \in DOMAIN arrays \cup {id} |->
                                  IF j = id THEN after ELSE arrays[j]]
                      gs == [gens EXCEPT ![g].st = "running", ![g].idx = id,
                                ![g].i = i,
                                ![g].order = IF pass THEN after ELSE gen.order,
                                ![g].emitted = IF pass THEN window
                                               ELSE gen.emitted \o window]
                  IN  /\ IF pass /\ gen.shuffle
                         THEN /\ drawn' = Remember(PassRng(gen.seed), L, p)
                              /\ rng' = Entropy
                         ELSE UNCHANGED <<rng, drawn>>
                      /\ UNCHANGED phase
                      /\ IF gen.with_meta /\ AdditionalDataFails(window)
                         THEN \* IndexError in _get_additional_data
                              ended(gs, heap, "meta")
                         ELSE /\ gens' = gs
                              /\ arrays' = Collect(heap, gs)
                              /\ last' = [op |-> "next", gen |-> g, raised |-> FALSE,
                                          batch |-> Batch(gen, window)]
        /\ UNCHANGED <<class_files, multilabel, data, labels, splits, meta, pinned>>

\* ------------------------------------------------------ class weights
\* A float is kept exact as a ratio [num, den] of naturals: den = 0 with
\* num > 0 is inf (numpy's x / 0 for x > 0), num = den = 0 is nan.  Ratios
\* are kept in lowest terms.
RECURSIVE GCD(_, _)
GCD(a, b) == IF b = 0 THEN a ELSE GCD(b, a % b)
Ratio(n, d) ==
    IF n = 0 /\ d = 0 THEN [num |-> 0, den |-> 0]
    ELSE [num |-> n \div GCD(n, d), den |-> d \div GCD(n, d)]
RatLess(a, b) == a.num * b.den < b.num * a.den
RatEq(a, b) ==
    /\ ~(a.num = 0 /\ a.den = 0)
    /\ ~(b.num = 0 /\ b.den = 0)
    /\ a.num * b.den = b.num * a.den
    /\ (a.den = 0) = (b.den = 0)
\* a / b for a finite b above 0
RatDiv(a, b) == Ratio(a.num * b.den, a.den * b.num)
\* counts.min()
RatMin(S) == CHOOSE m \in S : \A x \in S : ~RatLess(x, m)
\* counts.max()
RatMax(S) == CHOOSE m \in S : \A x \in S : ~RatLess(m, x)

\* line 376, sum(self.labels): per class the number of records with a 1
LabelSums(lab) ==
    [c \in DOMAIN lab[1].v |-> SeqSum([x \in DOMAIN lab |-> lab[x].v[c]])]

\* the weights scaled by the largest ratio
get_class_weights_max(lab) ==
    LET counts == LabelSums(lab)
        ratios == [c \in DOMAIN counts |-> Ratio(Len(lab), counts[c])]
    IN  [c \in DOMAIN counts |-> RatDiv(ratios[c], RatMax(Range(ratios)))]

\* Data._get_class_weights(): entry c + 1 is the weight of class c
get_class_weights(lab) ==
    LET counts == LabelSums(lab)
        ratios == [c \in DOMAIN counts |-> Ratio(Len(lab), counts[c])]
    IN  [c \in DOMAIN counts |-> RatDiv(ratios[c], RatMin(Range(ratios)))]

\* a call of _get_class_weights on the constructed dataset
class_weights ==
    /\ phase = "ready"
    /\ last' = [op |-> "weights", raised |-> FALSE,
                weights |-> get_class_weights(labels)]
    /\ UNCHANGED <<phase, class_files, multilabel, data, labels, splits, meta,
                   gens, arrays, rng, drawn, pinned>>

\* ------------------------------------------------------------ the inputs
\* fasta entries
Entries(headers) == [seq_len : SeqLens, header : headers]

\* single-label: up to MaxFiles files, headers ignored; multi-label: one file
SingleLabelFiles ==
    {fs \in SeqsUpTo(SeqsUpTo(Entries({<<>>}), MaxRecords), MaxFiles) :
        fs # <<>> /\ Len(Flatten(fs)) <= MaxRecords}
MultiLabelFiles ==
    {<<f>> : f \in SeqsUpTo(Entries(Headers), MaxRecords)}

Init ==
    /\ phase = "new"
    /\ class_files = <<>>
    /\ multilabel = FALSE
    /\ data = <<>>
    /\ labels = <<>>
    /\ splits = NoSplits
    /\ meta = <<>>
    /\ gens = [g \in GenIds |-> NoGen]
    /\ arrays = NoArrays
    /\ rng = Entropy
    /\ drawn = NoDraws
    /\ last = [op |-> "none", pt |-> 0, pv |-> 0, seed |-> None, raised |-> FALSE]
    /\ pinned = NoPin

\* the class files of the everyday runs: equal lengths, one alphabet
StdEntry(h) == [seq_len |-> 2, header |-> h]
StdSingleLabelFiles ==
    {<<[e \in 1..(MaxRecords - 1) |-> StdEntry(<<>>)], <<StdEntry(<<>>)>>>>}

\* the constructor on any class files within the bounds
Construct ==
    /\ phase = "new"
    /\ \E a \in Alphabets :
          \/ \E fs \in SingleLabelFiles : Data_init(fs, FALSE, a)
          \/ \E fs \in MultiLabelFiles : Data_init(fs, TRUE, a)

\* the constructor on the everyday class files
ConstructStd ==
    /\ phase = "new"
    /\ \E fs \in StdSingleLabelFiles : Data_init(fs, FALSE, <<4>>)

\* the splits of the everyday runs
StdSplits == {<<40, 40, None>>}

\* text files for the class files in use: line e of file f
AuxLine(f, e) == [num |-> TRUE, val |-> 1 + ((f + e) % 2), ws |-> e = 1]
Reverse(s) == [j \in DOMAIN s |-> s[Len(s) + 1 - j]]
\* a file per class file, a line per entry
RightAux == [f \in DOMAIN class_files |->
                [e \in DOMAIN class_files[f] |-> AuxLine(f, e)]]
\* the same files handed over in reverse order
SwappedAux == Reverse(RightAux)
\* the same lines in one file
OneFileAux == <<Flatten(RightAux)>>
\* the last line missing
ShortAux == [RightAux EXCEPT ![Len(RightAux)] =
                SubSeq(RightAux[Len(RightAux)], 1, Len(RightAux[Len(RightAux)]) - 1)]
\* the last line a word
BadAux == [RightAux EXCEPT ![Len(RightAux)][Len(RightAux[Len(RightAux)])] =
              [num |-> FALSE, val |-> 1, ws |-> FALSE]]
\* the loads of the everyday runs: files, is_categorical, standardize
StdLoads == {<<RightAux, FALSE, FALSE>>}
\* loads of every kind
AllLoads ==
    {<<RightAux, FALSE, FALSE>>, <<RightAux, FALSE, TRUE>>, <<RightAux, TRUE, FALSE>>,
     <<SwappedAux, FALSE, TRUE>>, <<SwappedAux, TRUE, FALSE>>,
     <<OneFileAux, TRUE, FALSE>>, <<OneFileAux, FALSE, FALSE>>,
     <<ShortAux, FALSE, FALSE>>, <<ShortAux, TRUE, FALSE>>,
     <<BadAux, FALSE, FALSE>>, <<BadAux, TRUE, FALSE>>}

\* the generators of the everyday runs: group, batch_size, shuffle, labels,
\* select, seed, meta
StdGenerators ==
    {<<"train", 1, TRUE, TRUE, NoSelect, None, TRUE>>,
     <<"train", 1, FALSE, TRUE, NoSelect, None, TRUE>>,
     <<"all", 2, FALSE, FALSE, NoSelect, None, TRUE>>}

\* train_val_test_split with any portions and seed
Split ==
    \E pt \in Portions, pv \in Portions, seed \in Seeds :
        train_val_test_split(pt, pv, seed, FALSE)

\* a split whose arguments and result may be kept in pinned
SplitPin ==
    \E pt \in PinPortions, pv \in PinPortions, seed \in Seeds, pin \in BOOLEAN :
        train_val_test_split(pt, pv, seed, pin)

SplitStd ==
    \E a \in StdSplits : train_val_test_split(a[1], a[2], a[3], FALSE)

LoadStd ==
    /\ phase = "ready"
    /\ \E a \in StdLoads : load_additional_data(a[1], a[2], a[3])

Generate ==
    \E g \in GenIds, a \in StdGenerators :
        /\ \A h \in 1..(g - 1) : gens[h].st # "none"
        /\ data_generator(g, a[1], a[2], a[3], a[4], a[5], a[6], a[7])

Consume == \E g \in GenIds : next(g)

\* load_additional_data with files of every kind
LoadAll ==
    /\ phase = "ready"
    /\ \E a \in AllLoads : load_additional_data(a[1], a[2], a[3])

\* the whole program on the everyday inputs
Next ==
    \/ ConstructStd
    \/ SplitStd
    \/ LoadStd
    \/ Generate
    \/ Consume

Spec == Init /\ [][Next]_vars

\* construction alone, on every set of class files within the bounds
NextData == Construct
SpecData == Init /\ [][NextData]_vars

\* construction and splits with every portion and seed
NextSplit ==
    \/ ConstructStd
    \/ Split
SpecSplit == Init /\ [][NextSplit]_vars

\* construction and splits, with a seeded split kept for comparison
NextSeed ==
    \/ ConstructStd
    \/ SplitPin
SpecSeed == Init /\ [][NextSeed]_vars

\* construction and loads of additional data of every kind
NextMeta ==
    \/ ConstructStd
    \/ LoadAll
SpecMeta == Init /\ [][NextMeta]_vars

\* the loads that succeed: numbers, z-scores, categories
GoodLoads ==
    {<<RightAux, FALSE, FALSE>>, <<RightAux, FALSE, TRUE>>, <<RightAux, TRUE, FALSE>>}
LoadGood ==
    /\ phase = "ready"
    /\ \E a \in GoodLoads : load_additional_data(a[1], a[2], a[3])

\* one generator at a time
GenerateFirst ==
    \E a \in StdGenerators :
        data_generator(1, a[1], a[2], a[3], a[4], a[5], a[6], a[7])

\* construction, successful loads and the batches of one generator
NextBatch ==
    \/ ConstructStd
    \/ LoadGood
    \/ GenerateFirst
    \/ Consume
SpecBatch == Init /\ [][NextBatch]_vars

\* the dataset of the tests (data_dna): 40 records of class 0, 60 of class 1
DnaFiles == <<[e \in 1..40 |-> StdEntry(<<>>)], [e \in 1..60 |-> StdEntry(<<>>)]>>

\* the dataset after __init__ on DnaFiles, the first split having drawn the
\* indices in their own order
InitDna ==
    LET n == Len(Flatten(DnaFiles))
        parts == NpSplit([j \in 1..n |-> j - 1], break_train(n, 70),
                         break_val(n, 70, 15))
    IN  /\ phase = "ready"
        /\ class_files = DnaFiles
        /\ multilabel = FALSE
        /\ data = LoadData(DnaFiles, <<4>>)
        /\ labels = process_labels(LoadLabels(DnaFiles, FALSE))
        /\ splits = [train |-> 1, val |-> 2, test |-> 3]
        /\ arrays = <<parts.train, parts.val, parts.test>>
        /\ meta = <<>>
        /\ gens = [g \in GenIds |-> NoGen]
        /\ rng = Entropy
        /\ drawn = NoDraws
        /\ last = [op |-> "init", pt |-> 70, pv |-> 15, seed |-> None,
                   raised |-> FALSE]
        /\ pinned = NoPin

\* a dataset is still to be constructed, or is the dataset of the tests
InitWeights == Init \/ InitDna

\* construction on any class files, and the class weights
NextWeights ==
    \/ Construct
    \/ class_weights
SpecWeights == InitWeights /\ [][NextWeights]_vars

\* A dataset of one class file with one record more than categories are
\* supported, and text files for it: line e holds the number e % k,
\* every other line with blanks around it.
WideRecords == MaxCategories + 1
WideFiles == <<[e \in 1..WideRecords |-> StdEntry(<<>>)]>>
WideAux(k, n) ==
    <<[e \in 1..n |-> [num |-> TRUE, val |-> e % k, ws |-> e % 2 = 1]]>>
WideLoads ==
    {<<WideAux(k, WideRecords), TRUE, FALSE>> :
        k \in {2, MaxEnumerated, MaxCategories, MaxCategories + 1}}
    \cup {<<WideAux(MaxCategories, WideRecords - 1), TRUE, FALSE>>,
          <<WideAux(2, WideRecords), FALSE, TRUE>>}

\* the dataset after __init__ on WideFiles, the first split having drawn
\* the indices in their own order
InitWide ==
    LET n == WideRecords
        parts == NpSplit([j \in 1..n |-> j - 1], break_train(n, 70),
                         break_val(n, 70, 15))
    IN  /\ phase = "ready"
        /\ class_files = WideFiles
        /\ multilabel = FALSE
        /\ data = LoadData(WideFiles, <<4>>)
        /\ labels = process_labels(LoadLabels(WideFiles, FALSE))
        /\ splits = [train |-> 1, val |-> 2, test |-> 3]
        /\ arrays = <<parts.train, parts.val, parts.test>>
        /\ meta = <<>>
        /\ gens = [g \in GenIds |-> NoGen]
        /\ rng = Entropy
        /\ drawn = NoDraws
        /\ last = [op |-> "init", pt |-> 70, pv |-> 15, seed |-> None,
                   raised |-> FALSE]
        /\ pinned = NoPin

LoadWide == \E a \in WideLoads : load_additional_data(a[1], a[2], a[3])

\* loads of additional data with up to MaxCategories + 1 categories
NextWide == LoadWide
SpecWide == InitWide /\ [][NextWide]_vars

\* ------------------------------------------------------------ the claims
N == Len(data)
Floor(num, den) == num \div den
AllIndices == 0..(N - 1)

\* C1: once the dataset is constructed, and after every later split, the
\* stored train, val and test index sets are pairwise disjoint, their union
\* is {0..N-1}, and their sizes add up to N.
C1_SplitPartition ==
    phase = "ready" =>
        LET tr == SplitSeq("train")
            va == SplitSeq("val")
            te == SplitSeq("test")
        IN  /\ Range(tr) \cap Range(va) = {}
            /\ Range(tr) \cap Range(te) = {}
            /\ Range(va) \cap Range(te) = {}
            /\ Range(tr) \cup Range(va) \cup Range(te) = AllIndices
            /\ Len(tr) + Len(va) + Len(te) = N

\* a re-split that leaves all three groups non-empty
C1_Witness ==
    /\ phase = "ready"
    /\ last.op = "split"
    /\ \A g \in Groups : SplitSeq(g) # <<>>

\* C2 as claimed: right after a split with portions pt and pv, train holds
\* floor(N*pt) indices, val holds floor(N*(pt+pv)) - floor(N*pt), test the
\* rest, and the three in a row are one permutation of 0..N-1.
C2_SplitSizes ==
    (phase = "ready" /\ last.op \in {"init", "split"}) =>
        LET tr == SplitSeq("train")
            va == SplitSeq("val")
            te == SplitSeq("test")
        IN  /\ Len(tr) = Floor(N * last.pt, 100)
            /\ Len(va) = Floor(N * (last.pt + last.pv), 100) - Floor(N * last.pt, 100)
            /\ Len(te) = N - Len(tr) - Len(va)
            /\ (tr \o va \o te) \in PermutationsOf(N)

\* C3 as claimed: a split call with portion_train + portion_val > 1 raises
\* and leaves the stored split as it was.
C3_BadPortionsRaise ==
    [][(last'.op = "split" /\ last'.pt + last'.pv > 100) =>
          (last'.raised /\ splits' = splits /\ arrays' = arrays)]_vars

\* C4 as claimed: a split call with a seed (0 included) and the arguments
\* of an earlier call returns the train, val and test sequences of that
\* earlier call, whatever was drawn in between.
C4_SeededSplitRepeats ==
    [][(/\ last'.op = "split"
        /\ pinned # NoPin
        /\ last'.pt = pinned.pt
        /\ last'.pv = pinned.pv
        /\ last'.seed = pinned.seed) =>
          \A g \in Groups : arrays'[splits'[g]] = pinned.parts[g]]_vars

\* the file and the entry record x (0-based) was read from
Origin(x) ==
    CHOOSE fe \in {<<f, e>> : f \in DOMAIN class_files, e \in 1..MaxRecords} :
        /\ fe[2] \in DOMAIN class_files[fe[1]]
        /\ Len(Flatten(SubSeq(class_files, 1, fe[1] - 1))) + fe[2] = x + 1

\* the class ids the input gives record x
RawClasses(x) ==
    IF multilabel
    THEN Range(class_files[Origin(x)[1]][Origin(x)[2]].header)
    ELSE {Origin(x)[1] - 1}

\* C5: after construction every label vector has 1 + (the largest class id
\* of any record) entries; record r's entry for class c is 1 when c is among
\* r's class ids and 0 otherwise; in single-label mode the one 1 is at the
\* position of the record's file.
C5_LabelVectors ==
    phase = "ready" =>
        LET num_classes == 1 + SetMax(UNION {RawClasses(x) : x \in AllIndices})
        IN  \A x \in AllIndices :
                /\ Len(labels) = N
                /\ labels[x + 1].kind = "array"
                /\ Len(labels[x + 1].v) = num_classes
                /\ \A c \in 0..(num_classes - 1) :
                      labels[x + 1].v[c + 1] = IF c \in RawClasses(x) THEN 1 ELSE 0
                /\ ~multilabel =>
                      {c \in 0..(num_classes - 1) : labels[x + 1].v[c + 1] = 1}
                          = {Origin(x)[1] - 1}

\* a multi-label dataset with a record in two classes and a record in one
C5_Witness ==
    /\ phase = "ready"
    /\ multilabel
    /\ \E x, y \in DOMAIN labels :
          /\ labels[x].v = <<1, 1>>
          /\ labels[y].v = <<0, 1>>

\* do two entries of the class files differ in sequence length?
InputLengthsDiffer ==
    \E x, y \in DOMAIN Flatten(class_files) :
        Flatten(class_files)[x].seq_len # Flatten(class_files)[y].seq_len

\* C6: the constructor either raises or leaves a dataset whose records all
\* have one shape (sequence_length, alphabet_size); when two loaded records
\* differ in length it raises, and neither label vectors nor a split exist.
C6_OneShapeOrRaise ==
    /\ phase = "ready" =>
          /\ ~last.raised
          /\ \A x, y \in DOMAIN data : data[x] = data[y]
    /\ (phase # "new" /\ InputLengthsDiffer) =>
          /\ phase = "failed"
          /\ last.raised
          /\ splits = NoSplits
          /\ arrays = NoArrays
          /\ \A x \in DOMAIN labels : labels[x].kind = "list"

\* the constructor has raised on records of different lengths
C6_Witness ==
    /\ phase = "failed"
    /\ Len(data) = MaxRecords
    /\ InputLengthsDiffer
    /\ data[1][1] = data[2][1]

\* C7 as claimed: a generator never ends, and the indices it has yielded in
\* the pass it is in are the consecutive windows of the pass's index order
\* up to its position, so that a full pass yields each index exactly once.
C7_PassWindows ==
    \A g \in GenIds :
        /\ gens[g].st # "raised"
        /\ gens[g].st = "running" =>
              LET gen == gens[g]
                  L == Len(gen.order)
              IN  /\ gen.emitted = SubSeq(gen.order, 1, Min(gen.i + gen.batch_size, L))
                  /\ \A j, k \in DOMAIN gen.emitted :
                        gen.emitted[j] = gen.emitted[k] => j = k

\* C8 as claimed: a next() on a generator leaves the records, the label
\* vectors, the blocks of additional data and the stored index sequence of
\* every group, order included, as they were.
C8_NextKeepsDataset ==
    [][last'.op = "next" =>
          /\ data' = data
          /\ labels' = labels
          /\ meta' = meta
          /\ \A g \in Groups : arrays'[splits'[g]] = arrays[splits[g]]]_vars

\* C9 as claimed: a load that does not raise was given as many files as the
\* constructor, each with as many lines as its class file has records.
C9_PerFileCounts ==
    (last.op = "load" /\ ~last.raised) =>
        /\ Len(last.files) = Len(class_files)
        /\ \A f \in DOMAIN class_files :
              Len(last.files[f]) = Len(class_files[f])

\* do two lines hold the same text, blanks around it aside?
SameText(l1, l2) == l1.num = l2.num /\ l1.val = l2.val

\* C10: a categorical load of k distinct values raises when k is above 256;
\* a categorical load of k <= 256 distinct values, one per record, stores
\* for every record a vector of k entries, one of them 1 and the others 0,
\* and two records have the same vector exactly when their values are the
\* same text.
C10_OneHot ==
    (last.op = "load" /\ last.is_categorical) =>
        LET lines == Flatten(last.files)
            k == Cardinality({<<lines[x].num, lines[x].val>> : x \in DOMAIN lines})
            block == meta[Len(meta)].data
        IN  /\ k > MaxCategories => last.raised
            /\ (k <= MaxCategories /\ Len(lines) = N) =>
                  /\ ~last.raised
                  /\ Len(block) = N
                  /\ \A x \in DOMAIN block :
                        /\ block[x].kind = "onehot"
                        /\ Len(block[x].v) = k
                        /\ Cardinality({c \in 1..k : block[x].v[c] = 1}) = 1
                        /\ \A c \in 1..k : block[x].v[c] \in {0, 1}
                  /\ \A x, y \in DOMAIN block :
                        block[x].v = block[y].v <=> SameText(lines[x], lines[y])

\* a categorical load of exactly 256 distinct values has been stored
C10_Witness ==
    /\ last.op = "load"
    /\ last.is_categorical
    /\ ~last.raised
    /\ Len(meta[Len(meta)].data) = WideRecords
    /\ Len(meta[Len(meta)].data[1].v) = MaxCategories

\* what block b holds for record x (0-based), as the floats it adds to a row
RECURSIVE BlockCells(_, _, _)
BlockCells(b, x, c) ==
    LET value == meta[b].data[x + 1]
        width == IF meta[b].is_categorical THEN Len(value.v) ELSE 1
    IN  IF c > width THEN <<>>
        ELSE <<IF meta[b].is_categorical THEN [kind |-> "float", v |-> <<value.v[c]>>]
               ELSE value>> \o BlockCells(b, x, c + 1)

\* the values of record x in blocks b, b + 1, ... in a row
RECURSIVE RowFrom(_, _)
RowFrom(b, x) ==
    IF b > Len(meta) THEN <<>> ELSE BlockCells(b, x, 1) \o RowFrom(b + 1, x)

\* the width of blocks b, b + 1, ...: 1 for numbers, k for k categories
RECURSIVE WidthFrom(_)
WidthFrom(b) ==
    IF b > Len(meta) THEN 0
    ELSE (IF meta[b].is_categorical THEN Len(meta[b].data[1].v) ELSE 1)
         + WidthFrom(b + 1)

\* C11: after successful loads, row j of a batch's additional data is the
\* values of the j-th record of the batch from block 0, block 1, ... in this
\* order; its length is the sum of the block widths; and row j of the
\* encoded records and of the labels belongs to the same record.
C11_AuxRows ==
    (last.op = "next" /\ ~last.raised /\ last.batch.has_meta) =>
        LET batch == last.batch
        IN  /\ Len(batch.meta) = Len(batch.indices)
            /\ Len(batch.data) = Len(batch.indices)
            /\ \A j \in DOMAIN batch.indices :
                  /\ batch.meta[j] = RowFrom(1, batch.indices[j])
                  /\ Len(batch.meta[j]) = WidthFrom(1)
                  /\ batch.data[j] = data[batch.indices[j] + 1]
                  /\ batch.has_labels =>
                        batch.labels[j] = labels[batch.indices[j] + 1]

\* a batch of two records with a block of numbers before a block of categories
C11_Witness ==
    /\ last.op = "next"
    /\ ~last.raised
    /\ last.batch.has_meta
    /\ Len(last.batch.indices) = 2
    /\ Len(meta) = 2
    /\ ~meta[1].is_categorical
    /\ meta[2].is_categorical
    /\ Len(last.batch.meta[1]) = 3

\* C12: a call of train_val_test_split after construction returns, puts a
\* whole new partition of 0..N-1 in place of the stored split, and leaves
\* the records, the label vectors and the blocks of additional data as they
\* were: get_labels("all") is the N label vectors in record order before
\* and after it.
C12_ResplitKeepsRecords ==
    [][last'.op = "split" =>
          /\ ~last'.raised
          /\ data' = data
          /\ labels' = labels
          /\ meta' = meta
          /\ \A x \in DOMAIN labels : labels[x].kind = "array"
          /\ get_labels("all") = labels
          /\ get_labels("all")' = labels
          /\ Len(get_labels("all")') = Len(data)
          /\ Range(arrays'[splits'["train"]]) \cup Range(arrays'[splits'["val"]])
                 \cup Range(arrays'[splits'["test"]]) = 0..(Len(data) - 1)
          /\ Len(arrays'[splits'["train"]]) + Len(arrays'[splits'["val"]])
                 + Len(arrays'[splits'["test"]]) = Len(data)]_vars

\* a re-split of a dataset with additional data while a generator is running
C12_Witness ==
    /\ last.op = "split"
    /\ Len(meta) > 0
    /\ \E g \in GenIds : gens[g].st = "running"
    /\ \A g \in Groups : SplitSeq(g) # <<>>

\* the number of records with a 1 for class c (1-based position)
ClassCount(c) == Cardinality({x \in DOMAIN labels : labels[x].v[c] = 1})
\* N / count_c
ClassRatio(c) == Ratio(N, ClassCount(c))
\* the float a times the integer n (inf * 0 is nan)
Times(a, n) == Ratio(a.num * n, a.den)
One == Ratio(1, 1)

\* C13 as claimed: _get_class_weights returns per class (N / count_c)
\* divided by the least N / count_j; the most frequent class has weight 1,
\* every weight is at least 1, and weight_c * count_c is the same for all
\* classes.
C13_ClassWeights ==
    last.op = "weights" =>
        LET w == last.weights
            classes == DOMAIN labels[1].v
            least == RatMin({ClassRatio(c) : c \in classes})
        IN  /\ DOMAIN w = classes
            /\ \A c \in classes :
                  /\ RatEq(w[c], RatDiv(ClassRatio(c), least))
                  /\ ~RatLess(w[c], One)
                  /\ (\A d \in classes : ClassCount(d) <= ClassCount(c)) =>
                        RatEq(w[c], One)
            /\ \A c, d \in classes :
                  RatEq(Times(w[c], ClassCount(c)), Times(w[d], ClassCount(d)))

\* C13, amended: as claimed for the classes that have a record; a class
\* without a record has the weight inf, and weight_c * count_c is the same
\* for all classes that have a record.
C13_ClassWeightsOfUsedClasses ==
    last.op = "weights" =>
        LET w == last.weights
            classes == DOMAIN labels[1].v
            least == RatMin({ClassRatio(c) : c \in classes})
        IN  /\ DOMAIN w = classes
            /\ \A c \in classes :
                  /\ RatEq(w[c], RatDiv(ClassRatio(c), least))
                  /\ ~RatLess(w[c], One)
                  /\ (\A d \in classes : ClassCount(d) <= ClassCount(c)) =>
                        RatEq(w[c], One)
                  /\ ClassCount(c) = 0 => (w[c].den = 0 /\ w[c].num > 0)
            /\ \A c, d \in classes :
                  (ClassCount(c) > 0 /\ ClassCount(d) > 0) =>
                      RatEq(Times(w[c], ClassCount(c)), Times(w[d], ClassCount(d)))

\* the weights of the dataset with label sums [40, 60] are 1.5 and 1.0
C13_Witness ==
    /\ last.op = "weights"
    /\ ClassCount(1) = 40
    /\ ClassCount(2) = 60
    /\ RatEq(last.weights[1], Ratio(3, 2))
    /\ RatEq(last.weights[2], One)

\* C14 as claimed: a load_additional_data call that raises leaves the
\* stored blocks of additional data exactly as they were before the call.
C14_FailedLoadKeepsBlocks ==
    [][(last'.op = "load" /\ last'.raised) => meta' = meta]_vars
====
